---- MODULE Spec2Model ----
(***************************************************************************)
(* The per-request access gateway of mybuildingboard: the Next.js          *)
(* middleware that classifies a request's route, validates the caller's    *)
(* session against the identity provider, picks a tenant ("app") and       *)
(* answers with a forward or a redirect.                                   *)
(*                                                                         *)
(* Two revisions of the middleware are in the repository and both are      *)
(* modelled, statement by statement:                                       *)
(*   revision "A"  src/middleware.ts      (membership query in middleware) *)
(*   revision "B"  src/unnamed/part_000   (no database query, inner try)   *)
(* Every `await` of the source is a step boundary of the model; what the   *)
(* awaited collaborator answers is chosen by the step that resumes.        *)
(***************************************************************************)
EXTENDS Integers, Sequences, FiniteSets, TLC

(***************************************************************************)
(* Bounds of the model.                                                    *)
(***************************************************************************)
\* number of requests one behaviour handles
MaxRequests == 2

(***************************************************************************)
(* Strings.                                                                *)
(***************************************************************************)
\* String.prototype.startsWith
StartsWith(s, p) == Len(s) >= Len(p) /\ SubSeq(s, 1, Len(p)) = p

\* a header or cookie that is absent (null / undefined / '' are all falsy)
NoId == ""

Truthy(s) == s # NoId

(***************************************************************************)
(* The universe the requests and the stores are drawn from.                *)
(***************************************************************************)
TenantIds == {"T1", "T2"}

UserIds == {"u1"}

\* credentials a request can carry: none, the token of u1, a forged token
Credentials == {"", "tok-u1", "tok-forged"}

\* the user a credential was issued to
CredentialUser(cred) == IF cred = "tok-u1" THEN "u1" ELSE ""

Revisions == {"A", "B"}

Paths ==
    { "/login", "/api/auth/session", "/api/emails",
      "/_next/data/x.json", "/favicon.ico", "/public/logo.png",
      "/app/create", "/app/select", "/dashboard" }

\* request.nextUrl.origin
RequestOrigin == "https://board.test"

(***************************************************************************)
(* Route classes (identical in both revisions).                            *)
(***************************************************************************)
publicRoutes ==
    { "/", "/login", "/signup", "/features", "/pricing", "/privacy",
      "/terms", "/auth/callback" }

\* the login page is not among the public routes
isPublicRoute_NoLogin(pathname) ==
    \E route \in publicRoutes \ {"/login"} :
        pathname = route \/ StartsWith(pathname, "/api/auth")

isPublicRoute(pathname) ==
    \E route \in publicRoutes :
        pathname = route \/ StartsWith(pathname, "/api/auth")

isApiRoute(pathname) == StartsWith(pathname, "/api/")

\* the static-file check forgets the /public/ prefix
isStaticFile_NoPublic(pathname) ==
    \/ StartsWith(pathname, "/_next/")
    \/ StartsWith(pathname, "/favicon.ico")

isStaticFile(pathname) ==
    \/ StartsWith(pathname, "/_next/")
    \/ StartsWith(pathname, "/favicon.ico")
    \/ StartsWith(pathname, "/public/")

\* the onboarding check forgets the selection page
isOnboardingRoute_CreateOnly(pathname) ==
    pathname = "/app/create"

isOnboardingRoute(pathname) ==
    pathname = "/app/create" \/ pathname = "/app/select"

\* the routes on which the middleware returns before creating a client
SkipsMiddleware(pathname) ==
    isPublicRoute(pathname) \/ isApiRoute(pathname) \/ isStaticFile(pathname)

(***************************************************************************)
(* URL construction (src/lib/utils/url.ts, both revisions).                *)
(***************************************************************************)
\* deployments: NEXT_PUBLIC_APP_URL unset, set to an http URL on a development
\* machine, set to something that is not a URL, or set to a URL of another
\* scheme
Environments ==
    { [url |-> "", env |-> "production"],
      [url |-> "http://app.test", env |-> "development"],
      [url |-> "not-a-url", env |-> "production"],
      [url |-> "ftp://files.test", env |-> "production"] }

FallbackBase == "https://localhost:3000"

\* line 102: appUrl.startsWith('http://') || appUrl.startsWith('https://')
IsHttpUrl(s) == StartsWith(s, "http://") \/ StartsWith(s, "https://")

\* new URL(path, base) throws a TypeError unless base parses as an absolute
\* URL; the scheme need not be http
ParsesAsBase(base) ==
    \E scheme \in {"http://", "https://", "ftp://"} :
        StartsWith(base, scheme) /\ Len(base) > Len(scheme)

\* String.prototype.replace('http://', 'https://') on a string that starts
\* with 'http://'
ReplaceHttp(s) == "https://" \o SubSeq(s, Len("http://") + 1, Len(s))

getAppUrl(envUrl, nodeEnv) ==
    LET appUrl == IF envUrl = "" THEN FallbackBase ELSE envUrl
    IN  IF nodeEnv = "development" /\ StartsWith(appUrl, "http://")
        THEN ReplaceHttp(appUrl)
        ELSE appUrl

\* a URL object: the base it was resolved against, its path and the value of
\* its `redirect` search parameter ("" when the parameter is not set)
MkUrl(base, path) == [origin |-> base, pathname |-> path, redirect |-> ""]

NoUrl == [origin |-> "", pathname |-> "", redirect |-> ""]

\* the return path is dropped
SetRedirectParam_Dropped(url, value) == url

\* url.searchParams.set('redirect', value)
SetRedirectParam(url, value) == [url EXCEPT !.redirect = value]

\* createAppUrl(path), first revision: try new URL(path, getAppUrl()),
\* catch -> new URL(path, 'https://localhost:3000')
\* the TypeError of new URL is not caught: no URL is returned
createAppUrl1_NoCatch(path, envUrl, nodeEnv) ==
    LET appUrl == getAppUrl(envUrl, nodeEnv)
    IN  IF ParsesAsBase(appUrl)
        THEN MkUrl(appUrl, path)
        ELSE NoUrl

createAppUrl1(path, envUrl, nodeEnv) ==
    LET appUrl == getAppUrl(envUrl, nodeEnv)
    IN  IF ParsesAsBase(appUrl)
        THEN MkUrl(appUrl, path)
        ELSE MkUrl(FallbackBase, path)

\* createAppUrl(path, origin), second revision
createAppUrl2(path, origin, envUrl, nodeEnv) ==
    LET appUrl == getAppUrl(envUrl, nodeEnv)
    IN  IF appUrl # "" /\ IsHttpUrl(appUrl)
        THEN IF ParsesAsBase(appUrl)
             THEN MkUrl(appUrl, path)
             ELSE \* catch, lines 111-123
                  IF origin # "" /\ ParsesAsBase(origin)
                  THEN MkUrl(origin, path)
                  ELSE MkUrl(FallbackBase, path)
        ELSE IF origin # ""
             THEN IF ParsesAsBase(origin)
                  THEN MkUrl(origin, path)
                  ELSE MkUrl(FallbackBase, path)
             ELSE MkUrl(FallbackBase, path)

(***************************************************************************)
(* Responses.                                                              *)
(***************************************************************************)
NoCookie == [value |-> NoId, path |-> "", maxAge |-> 0]

\* 365 * 24 * 60 * 60
OneYear == 31536000

AppIdCookie(id) == [value |-> id, path |-> "/", maxAge |-> OneYear]

NoResponse == [kind |-> "none", location |-> NoUrl, xAppId |-> NoId,
               cookie |-> NoCookie]

\* NextResponse.next()
ResponseNext == [kind |-> "next", location |-> NoUrl, xAppId |-> NoId,
                 cookie |-> NoCookie]

\* NextResponse.redirect(url)
ResponseRedirect(url) == [kind |-> "redirect", location |-> url,
                          xAppId |-> NoId, cookie |-> NoCookie]

\* the header is set and the cookie is forgotten
WithAppId_HeaderOnly(response, id) ==
    [response EXCEPT !.xAppId = id]

\* response.headers.set('x-app-id', id); response.cookies.set('app_id', id,
\* { path: '/', maxAge: 365 * 24 * 60 * 60 })
WithAppId(response, id) ==
    [response EXCEPT !.xAppId = id, !.cookie = AppIdCookie(id)]

(***************************************************************************)
(* State.                                                                  *)
(***************************************************************************)
VARIABLES
    apps,           \* tenant catalog: ids of the rows of table apps
    members,        \* table app_members: user id -> set of app ids
    signedIn,       \* identity provider: users whose credential is live
    envUrl,         \* process.env.NEXT_PUBLIC_APP_URL ("" when unset)
    nodeEnv,        \* process.env.NODE_ENV
    nreq,           \* requests received so far
    rev,            \* the middleware revision that handles the request
    req,            \* the request: path, x-app-id header, app_id cookie,
                    \* credential
    pc,             \* position of the handler in its code
    user,           \* `user` of the handler ("" is null)
    authCheckSucceeded, \* revision B's flag
    appId,          \* `appId` of the handler ("" is null)
    outcome,        \* what each awaited collaborator answered
    calls,          \* upstream calls issued for this request
    resp,           \* the response returned (kind "none" until then)
    dreq,           \* app layer: the headers, cookies, credential and
                    \* hostname getAppIdFromRequest is called with
    dpc,            \* app layer: position inside getAppIdFromRequest
    duser,          \* app layer: the user getServerUser returned
    dout,           \* app layer: what each awaited lookup answered
    detected,       \* app layer: what getAppIdFromRequest returned
    prev,           \* history: the last request a response was sent for,
                    \* with the stores and the upstream answers it was
                    \* decided on
    ra,             \* requireAuth: position, credential, the auth calls
                    \* issued in order, their answers, the result
    configCache,    \* app config: the module-level Map, app id -> entry
    now,            \* app config: Date.now()
    callers,        \* app config: the getAppConfig calls in progress
    hist,           \* app config, history: what the call that stored each
                    \* entry returned, which calls in flight read the app row
                    \* before an invalidation of their key, which entries
                    \* were stored by such a call
    rr,             \* resolveAccessRedirectServer: position, arguments, the
                    \* answer of the membership query, the result
    tls,            \* configureLocalTLS: the module's tlsConfigured flag,
                    \* process.env.NODE_TLS_REJECT_UNAUTHORIZED, and the
                    \* writes the function made to it
    logContext,     \* logger: the requestId in the singleton's context
    api,            \* API routes: position of each wrapped request
    lastEntry       \* logger: the last entry a route handler emitted

vars == <<apps, members, signedIn, envUrl, nodeEnv, nreq, rev, req, pc, user,
          authCheckSucceeded, appId, outcome, calls, resp, dreq, dpc, duser,
          dout, detected, prev, ra, configCache, now, callers, hist, rr, tls,
          logContext, api, lastEntry>>

detVars == <<dreq, dpc, duser, dout, detected>>

cacheVars == <<configCache, now, callers, hist>>

logVars == <<logContext, api, lastEntry>>

\* resolveAccessRedirectServer, configureLocalTLS and the logger
sideVars == <<rr, tls, logContext, api, lastEntry>>

\* the state outside the gateway and getAppIdFromRequest
auxVars == <<prev, ra, configCache, now, callers, hist, rr, tls, logContext,
             api, lastEntry>>

gatewayVars == <<nreq, rev, req, pc, user, authCheckSucceeded, appId, outcome,
                 calls, resp>>

storeVars == <<apps, members, signedIn>>

envVars == <<envUrl, nodeEnv>>

NoRequest == [path |-> "/", header |-> NoId, cookie |-> NoId, cred |-> ""]

NoDetectRequest == [header |-> NoId, cookie |-> NoId, cred |-> "",
                    hostname |-> ""]

\* status "none" until the call settles, then "returned" (id "" is null) or
\* "threw"
NotDetected == [status |-> "none", id |-> NoId]

NoLookups == [header |-> "none", cookie |-> "none", getUser |-> "none",
              members |-> "none", subdomain |-> "none"]

NoOutcome == [client |-> "none", getUser |-> "none", getSession |-> "none",
              queryClient |-> "none", members |-> "none"]

NoCalls == [getUser |-> 0, getSession |-> 0, members |-> 0]

\* no response has been sent yet (resp.kind = "none")
NoPrev == [rev |-> "A", req |-> NoRequest, outcome |-> NoOutcome,
           apps |-> {}, members |-> [u \in UserIds |-> {}], signedIn |-> {},
           resp |-> NoResponse]

NoAuthCall == [pc |-> "idle", cred |-> "", order |-> <<>>,
               getUser |-> "none", getSession |-> "none", result |-> "none"]

\* Map.get(appId) === undefined
NoEntry == [present |-> FALSE, config |-> "null", timestamp |-> 0]

CallerIds == {"c1", "c2"}

NoResult == [kind |-> "none", fromCache |-> FALSE, age |-> 0,
             config |-> "null"]

NoCall == [pc |-> "idle", appId |-> NoId, useCache |-> FALSE,
           result |-> NoResult]

NoHistory == [returned |-> [t \in TenantIds |-> ""],
              stale |-> [c \in CallerIds |-> FALSE]]

NoRedirectCall == [pc |-> "idle", userId |-> "", pathname |-> "",
                   answer |-> "none", result |-> "none"]

\* line 11: let tlsConfigured = false; the variable is not set in the
\* environment
TlsUntouched == [configured |-> FALSE, reject |-> "unset", calls |-> 0,
                 lastUrl |-> "", writes |-> 0, writtenFor |-> ""]

\* the API requests the process serves at the same time
ApiIds == {"r1", "r2"}

\* no call of the route handler is running for the request
NoApiCall == [pc |-> "idle", header |-> FALSE]

\* nothing was logged: owner is the request the entry was emitted for,
\* requestId the one in its context, concurrent whether another request
\* was in flight then
NoEntryLogged == [owner |-> "", requestId |-> "", concurrent |-> FALSE]

Init ==
    /\ apps = {}
    /\ members = [u \in UserIds |-> {}]
    /\ signedIn = {}
    /\ \E e \in Environments : envUrl = e.url /\ nodeEnv = e.env
    /\ nreq = 0
    /\ rev = "A"
    /\ req = NoRequest
    /\ pc = "idle"
    /\ user = ""
    /\ authCheckSucceeded = FALSE
    /\ appId = NoId
    /\ outcome = NoOutcome
    /\ calls = NoCalls
    /\ resp = NoResponse
    /\ dreq = NoDetectRequest
    /\ dpc = "idle"
    /\ duser = ""
    /\ dout = NoLookups
    /\ detected = NotDetected
    /\ prev = NoPrev
    /\ ra = NoAuthCall
    /\ configCache = [t \in TenantIds |-> NoEntry]
    /\ now = 0
    /\ callers = [c \in CallerIds |-> NoCall]
    /\ hist = NoHistory
    /\ rr = NoRedirectCall
    /\ tls = TlsUntouched
    /\ logContext = NoId
    /\ api = [r \in ApiIds |-> NoApiCall]
    /\ lastEntry = NoEntryLogged

(***************************************************************************)
(* The stores the gateway consumes.  They are written elsewhere in the     *)
(* system (app creation flow, sign-in pages); the gateway only reads them. *)
(* pc = "done" is the instant a decision is returned: the stores are       *)
(* observed as they are at that instant and move on once the request is    *)
(* discarded.                                                              *)
(***************************************************************************)
\* INSERT INTO apps
CreateApp(t) ==
    /\ pc # "done"
    /\ dpc # "done"
    /\ t \notin apps
    /\ apps' = apps \cup {t}
    /\ UNCHANGED <<auxVars, detVars, members, signedIn, envVars, nreq, rev,
                   req, pc, user, authCheckSucceeded, appId, outcome, calls,
                   resp>>

\* DELETE FROM apps: app_members.app_id REFERENCES apps(id) ON DELETE CASCADE
DeleteApp(t) ==
    /\ pc # "done"
    /\ dpc # "done"
    /\ t \in apps
    /\ apps' = apps \ {t}
    /\ members' = [u \in UserIds |-> members[u] \ {t}]
    /\ UNCHANGED <<auxVars, detVars, signedIn, envVars, nreq, rev, req, pc,
                   user, authCheckSucceeded, appId, outcome, calls, resp>>

\* INSERT INTO app_members (UNIQUE(app_id, user_id), app_id REFERENCES apps)
AddMember(u, t) ==
    /\ pc # "done"
    /\ dpc # "done"
    /\ t \in apps
    /\ t \notin members[u]
    /\ members' = [members EXCEPT ![u] = @ \cup {t}]
    /\ UNCHANGED <<auxVars, detVars, apps, signedIn, envVars, nreq, rev, req,
                   pc, user, authCheckSucceeded, appId, outcome, calls, resp>>

\* the identity provider issues or revokes the credential of a user
SignIn(u) ==
    /\ pc # "done"
    /\ dpc # "done"
    /\ u \notin signedIn
    /\ signedIn' = signedIn \cup {u}
    /\ UNCHANGED <<auxVars, detVars, apps, members, envVars, nreq, rev, req,
                   pc, user, authCheckSucceeded, appId, outcome, calls, resp>>

SignOut(u) ==
    /\ pc # "done"
    /\ dpc # "done"
    /\ u \in signedIn
    /\ signedIn' = signedIn \ {u}
    /\ UNCHANGED <<auxVars, detVars, apps, members, envVars, nreq, rev, req,
                   pc, user, authCheckSucceeded, appId, outcome, calls, resp>>

(***************************************************************************)
(* What the collaborators can answer.                                      *)
(***************************************************************************)
\* createMiddlewareClient(request): returns a client or throws
ClientOutcomes == {"client", "throws"}

\* await supabase.auth.getUser(): resolves with a user, with an error, with
\* neither, or rejects.  A user is returned only for a live credential; an
\* error or no user is the provider's explicit rejection.
GetUserOutcomes(cred) ==
    (IF CredentialUser(cred) \in signedIn THEN {"user"} ELSE {"error", "nouser"})
        \cup {"throws"}

\* await supabase.auth.getSession(): resolves with a session record or with
\* none, or rejects
GetSessionOutcomes == {"session", "nosession", "throws"}

\* await supabase.from('app_members').select('app_id').eq('user_id', id):
\* resolves with rows, with an error, or rejects
MembersOutcomes == {"rows", "error", "throws"}

(***************************************************************************)
(* A request arrives.                                                      *)
(***************************************************************************)
Receive ==
    /\ pc = "idle"
    /\ dpc = "idle"
    /\ nreq < MaxRequests
    /\ nreq' = nreq + 1
    /\ rev' \in Revisions
    /\ req' \in [path : Paths, header : TenantIds \cup {NoId},
                 cookie : TenantIds \cup {NoId}, cred : Credentials]
    /\ pc' = "start"
    /\ user' = ""
    /\ authCheckSucceeded' = FALSE
    /\ appId' = NoId
    /\ outcome' = NoOutcome
    /\ calls' = NoCalls
    /\ resp' = NoResponse
    /\ UNCHANGED <<auxVars, detVars, storeVars, envVars>>

\* the response has been sent: the request-scoped state is discarded
Discard ==
    /\ pc = "done"
    /\ pc' = "idle"
    /\ req' = NoRequest
    /\ rev' = "A"
    /\ user' = ""
    /\ authCheckSucceeded' = FALSE
    /\ appId' = NoId
    /\ outcome' = NoOutcome
    /\ calls' = NoCalls
    /\ resp' = NoResponse
    /\ UNCHANGED <<auxVars, detVars, storeVars, envVars, nreq>>

\* `return response` from the handler
Return(response) ==
    /\ resp' = response
    /\ pc' = "done"

\* an awaited upstream call never settles: neither revision races its calls
\* against a deadline, so the handler stays suspended at the await
UpstreamHangs ==
    /\ pc \in {"awaitUser", "awaitSession", "awaitMembers"}
    /\ outcome' = [outcome EXCEPT
                     !.getUser = IF pc = "awaitUser" THEN "hang" ELSE @,
                     !.getSession = IF pc = "awaitSession" THEN "hang" ELSE @,
                     !.members = IF pc = "awaitMembers" THEN "hang" ELSE @]
    /\ pc' = "hung"
    /\ UNCHANGED <<auxVars, detVars, storeVars, envVars, nreq, rev, req, user,
                   authCheckSucceeded, appId, calls, resp>>

(***************************************************************************)
(* Revision A: src/middleware.ts                                           *)
(***************************************************************************)
\* lines 68-70 and 79-81: createAppUrl('/login'), searchParams.set('redirect',
\* pathname), NextResponse.redirect
LoginRedirectA(pathname, appUrlEnv, env) ==
    ResponseRedirect(
        SetRedirectParam(createAppUrl1("/login", appUrlEnv, env), pathname))

\* the exception of a failed URL construction leaves the handler: there is
\* no response
RedirectA_Unbuilt(path, appUrlEnv, env) ==
    IF ParsesAsBase(getAppUrl(appUrlEnv, env))
    THEN ResponseRedirect(createAppUrl1(path, appUrlEnv, env))
    ELSE NoResponse

\* the return path is attached to every redirect
RedirectA_WithReturn(path, appUrlEnv, env) ==
    ResponseRedirect(
        SetRedirectParam(createAppUrl1(path, appUrlEnv, env), path))

\* lines 116, 123, 135, 140: NextResponse.redirect(createAppUrl(path))
RedirectA(path, appUrlEnv, env) ==
    ResponseRedirect(createAppUrl1(path, appUrlEnv, env))

\* the cookie is not read
ResolveAppIdA_HeaderOnly(headerAppId, cookieAppId) ==
    IF Truthy(headerAppId) THEN headerAppId ELSE NoId

\* the cookie is preferred to the header
ResolveAppIdA_CookieFirst(headerAppId, cookieAppId) ==
    IF Truthy(cookieAppId) THEN cookieAppId
    ELSE IF Truthy(headerAppId) THEN headerAppId
    ELSE NoId

\* lines 85-97: priority header > cookie
ResolveAppIdA(headerAppId, cookieAppId) ==
    IF Truthy(headerAppId) THEN headerAppId
    ELSE IF Truthy(cookieAppId) THEN cookieAppId
    ELSE NoId

\* the selection page is shown for the first request the process serves
\* only: a module-level flag then makes the handler auto-select
MembershipDecisionA_SelectOnce(userAppIds, appUrlEnv, env) ==
    IF Cardinality(userAppIds) = 0
    THEN RedirectA("/app/create", appUrlEnv, env)
    ELSE IF Cardinality(userAppIds) = 1 \/ nreq > 1
         THEN WithAppId(ResponseNext, CHOOSE t \in userAppIds : TRUE)
         ELSE RedirectA("/app/select", appUrlEnv, env)

\* any membership is auto-selected, as .limit(1) would
MembershipDecisionA_First(userAppIds, appUrlEnv, env) ==
    IF Cardinality(userAppIds) = 0
    THEN RedirectA("/app/create", appUrlEnv, env)
    ELSE WithAppId(ResponseNext, CHOOSE t \in userAppIds : TRUE)

\* lines 119-136: the decision on the rows of the membership query
MembershipDecisionA(userAppIds, appUrlEnv, env) ==
    IF Cardinality(userAppIds) = 0
    THEN RedirectA("/app/create", appUrlEnv, env)
    ELSE IF Cardinality(userAppIds) = 1
         THEN WithAppId(ResponseNext, CHOOSE t \in userAppIds : TRUE)
         ELSE RedirectA("/app/select", appUrlEnv, env)

\* lines 37-64: route classes, client construction, the getUser call is issued
StartA ==
    /\ pc = "start"
    /\ rev = "A"
    /\ IF SkipsMiddleware(req.path)
       THEN /\ Return(ResponseNext)
            /\ UNCHANGED <<outcome, calls>>
       ELSE \E c \in ClientOutcomes :
              /\ outcome' = [outcome EXCEPT !.client = c]
              /\ IF c = "throws"
                 THEN \* outer catch, lines 160-166
                      /\ Return(ResponseNext)
                      /\ UNCHANGED calls
                 ELSE /\ pc' = "awaitUser"
                      /\ calls' = [calls EXCEPT !.getUser = @ + 1]
                      /\ UNCHANGED resp
    /\ UNCHANGED <<auxVars, detVars, storeVars, envVars, nreq, rev, req, user,
                   authCheckSucceeded, appId>>

\* lines 61-76: getUser settles; on a user the getSession call is issued
UserReturnsA ==
    /\ pc = "awaitUser"
    /\ rev = "A"
    /\ \E o \in GetUserOutcomes(req.cred) :
         /\ outcome' = [outcome EXCEPT !.getUser = o]
         /\ CASE o = "throws" ->
                   \* outer catch, lines 160-166
                   /\ Return(ResponseNext)
                   /\ UNCHANGED <<user, calls>>
              [] o \in {"error", "nouser"} ->
                   /\ Return(LoginRedirectA(req.path, envUrl, nodeEnv))
                   /\ UNCHANGED <<user, calls>>
              [] o = "user" ->
                   /\ user' = CredentialUser(req.cred)
                   /\ pc' = "awaitSession"
                   /\ calls' = [calls EXCEPT !.getSession = @ + 1]
                   /\ UNCHANGED resp
    /\ UNCHANGED <<auxVars, detVars, storeVars, envVars, nreq, rev, req,
                   authCheckSucceeded, appId>>

\* lines 74-111 and 144-159: getSession settles; tenant signals are read; the
\* membership query is issued when there is none
SessionReturnsA ==
    /\ pc = "awaitSession"
    /\ rev = "A"
    /\ \E o \in GetSessionOutcomes :
         /\ CASE o = "throws" ->
                   /\ outcome' = [outcome EXCEPT !.getSession = o]
                   /\ Return(ResponseNext)
                   /\ UNCHANGED <<appId, calls>>
              [] o = "nosession" ->
                   /\ outcome' = [outcome EXCEPT !.getSession = o]
                   /\ Return(LoginRedirectA(req.path, envUrl, nodeEnv))
                   /\ UNCHANGED <<appId, calls>>
              [] o = "session" ->
                   LET a == ResolveAppIdA(req.header, req.cookie) IN
                   /\ appId' = a
                   /\ IF ~Truthy(a) /\ Truthy(user)
                      THEN IF isOnboardingRoute(req.path)
                           THEN /\ outcome' = [outcome EXCEPT !.getSession = o]
                                /\ Return(ResponseNext)
                                /\ UNCHANGED calls
                           ELSE \E c \in ClientOutcomes :
                                  /\ outcome' = [outcome EXCEPT
                                                   !.getSession = o,
                                                   !.queryClient = c]
                                  /\ IF c = "throws"
                                     THEN \* inner catch, lines 137-141
                                          /\ Return(RedirectA("/app/select",
                                                         envUrl, nodeEnv))
                                          /\ UNCHANGED calls
                                     ELSE /\ pc' = "awaitMembers"
                                          /\ calls' = [calls EXCEPT
                                                         !.members = @ + 1]
                                          /\ UNCHANGED resp
                      ELSE /\ outcome' = [outcome EXCEPT !.getSession = o]
                           /\ Return(IF Truthy(a)
                                     THEN WithAppId(ResponseNext, a)
                                     ELSE ResponseNext)
                           /\ UNCHANGED calls
    /\ UNCHANGED <<auxVars, detVars, storeVars, envVars, nreq, rev, req, user,
                   authCheckSucceeded>>

\* lines 108-141: the membership query settles
MembersReturnA ==
    /\ pc = "awaitMembers"
    /\ rev = "A"
    /\ \E o \in MembersOutcomes :
         /\ outcome' = [outcome EXCEPT !.members = o]
         /\ IF o = "rows"
            THEN Return(MembershipDecisionA(members[user], envUrl, nodeEnv))
            ELSE \* membershipsError (line 113) or the inner catch (line 137)
                 Return(RedirectA("/app/select", envUrl, nodeEnv))
    /\ UNCHANGED <<auxVars, detVars, storeVars, envVars, nreq, rev, req, user,
                   authCheckSucceeded, appId, calls>>

(***************************************************************************)
(* Revision B: src/unnamed/part_000                                        *)
(***************************************************************************)
\* lines 99-103: createAppUrl('/login', origin), searchParams.set,
\* NextResponse.redirect.  createAppUrl returns a URL on every path through
\* it, so the catch of lines 104-107 is never entered.
LoginRedirectB(pathname, origin, appUrlEnv, env) ==
    ResponseRedirect(
        SetRedirectParam(createAppUrl2("/login", origin, appUrlEnv, env),
                         pathname))

\* line 116: headerAppId || cookieAppId || null
ResolveAppIdB(headerAppId, cookieAppId) ==
    IF Truthy(headerAppId) THEN headerAppId
    ELSE IF Truthy(cookieAppId) THEN cookieAppId
    ELSE NoId

\* the request's tenant signal is echoed whatever the auth check answered
FinishB_EchoAlways(u, checked, request, appUrlEnv, env) ==
    LET a == ResolveAppIdB(request.header, request.cookie)
    IN  IF Truthy(a) THEN WithAppId(ResponseNext, a)
        ELSE IF checked /\ ~Truthy(u)
             THEN LoginRedirectB(request.path, RequestOrigin, appUrlEnv, env)
             ELSE ResponseNext

\* a failed auth check is handled like an explicit rejection
FinishB_Conflated(u, checked, request, appUrlEnv, env) ==
    IF ~Truthy(u)
    THEN LoginRedirectB(request.path, RequestOrigin, appUrlEnv, env)
    ELSE LET a == ResolveAppIdB(request.header, request.cookie)
         IN  IF Truthy(a) THEN WithAppId(ResponseNext, a) ELSE ResponseNext

\* lines 95-128: what the handler returns once the auth check is over
FinishB(u, checked, request, appUrlEnv, env) ==
    IF checked /\ ~Truthy(u)
    THEN LoginRedirectB(request.path, RequestOrigin, appUrlEnv, env)
    ELSE LET a == ResolveAppIdB(request.header, request.cookie)
         IN  IF Truthy(a) THEN WithAppId(ResponseNext, a) ELSE ResponseNext

\* the onboarding routes are not exempted from the auth check
BypassesAuthB_NoOnboarding(pathname) ==
    SkipsMiddleware(pathname)

\* lines 40-62: the routes revision B answers before any auth check
BypassesAuthB(pathname) ==
    SkipsMiddleware(pathname) \/ isOnboardingRoute(pathname)

\* lines 37-74: route classes, onboarding routes, client construction, the
\* getUser call is issued; a throwing client construction is caught at line
\* 87 and the handler runs on to its return
StartB ==
    /\ pc = "start"
    /\ rev = "B"
    /\ IF BypassesAuthB(req.path)
       THEN /\ Return(ResponseNext)
            /\ UNCHANGED <<outcome, calls, appId>>
       ELSE \E c \in ClientOutcomes :
              /\ outcome' = [outcome EXCEPT !.client = c]
              /\ IF c = "throws"
                 THEN /\ appId' = ResolveAppIdB(req.header, req.cookie)
                      /\ Return(FinishB("", FALSE, req, envUrl, nodeEnv))
                      /\ UNCHANGED calls
                 ELSE /\ pc' = "awaitUser"
                      /\ calls' = [calls EXCEPT !.getUser = @ + 1]
                      /\ UNCHANGED <<resp, appId>>
    /\ UNCHANGED <<auxVars, detVars, storeVars, envVars, nreq, rev, req, user,
                   authCheckSucceeded>>

\* lines 74-128: getUser settles and the handler runs on to its return
UserReturnsB ==
    /\ pc = "awaitUser"
    /\ rev = "B"
    /\ \E o \in GetUserOutcomes(req.cred) :
         LET u == IF o = "user" THEN CredentialUser(req.cred) ELSE ""
             checked == o # "throws"
         IN  /\ outcome' = [outcome EXCEPT !.getUser = o]
             /\ user' = u
             /\ authCheckSucceeded' = checked
             /\ appId' = IF checked /\ ~Truthy(u)
                         THEN appId
                         ELSE ResolveAppIdB(req.header, req.cookie)
             /\ Return(FinishB(u, checked, req, envUrl, nodeEnv))
    /\ UNCHANGED <<auxVars, detVars, storeVars, envVars, nreq, rev, req,
                   calls>>

(***************************************************************************)
(* App layer: getAppIdFromRequest (src/unnamed/part_012).                  *)
(***************************************************************************)
Hostnames == {"", "localhost", "www.board.test", "b1.board.test"}

\* column apps.subdomain (UNIQUE, nullable): T1 is served on b1, T2 has none
SubdomainOf(t) == IF t = "T1" THEN "b1" ELSE ""

\* String.prototype.split('.')
RECURSIVE SplitDots(_)
SplitDots(s) ==
    IF \E i \in 1..Len(s) : SubSeq(s, i, i) = "."
    THEN LET i == CHOOSE k \in 1..Len(s) :
                    /\ SubSeq(s, k, k) = "."
                    /\ \A j \in 1..(k - 1) : SubSeq(s, j, j) # "."
         IN  <<SubSeq(s, 1, i - 1)>> \o SplitDots(SubSeq(s, i + 1, Len(s)))
    ELSE <<s>>

\* getAppIdFromSubdomain, lines 81-90: the subdomain the lookup is made for,
\* "" when the function returns null before any query
SubdomainToLookUp(hostname) ==
    LET parts == SplitDots(hostname)
    IN  IF Len(parts) < 3 THEN ""
        ELSE IF parts[1] = "" \/ parts[1] = "www" \/ parts[1] = "localhost"
             THEN ""
             ELSE parts[1]

\* supabase.from('apps').select('id').eq('id', appId).single(): a row, an
\* error because no row matches, another error, or a rejected promise
ValidateOutcomes(id) ==
    (IF id \in apps THEN {"row"} ELSE {"norow"}) \cup {"error", "throws"}

\* every answer that is not an exception is taken for a row
validateAppId_NoCheck(answer) == TRUE

\* validateAppId, line 114: !error && !!data
validateAppId(answer) == answer = "row"

\* getAppIdFromRequest returns id (NoId is null)
DetectReturn(id) ==
    /\ detected' = [status |-> "returned", id |-> id]
    /\ dpc' = "done"

\* an awaited call rejected: the exception leaves getAppIdFromRequest
DetectThrow ==
    /\ detected' = [status |-> "threw", id |-> NoId]
    /\ dpc' = "done"

\* lines 146-160 once membershipAppId is null: step 4 when a hostname with a
\* subdomain was passed, else null
AfterMembership(hostname) ==
    IF Truthy(hostname) /\ SubdomainToLookUp(hostname) # ""
    THEN dpc' = "subdomain" /\ UNCHANGED detected
    ELSE DetectReturn(NoId)

\* lines 140-147 once the header is absent or failed validation
AfterHeader(cookieAppId) ==
    IF Truthy(cookieAppId)
    THEN dpc' = "validateCookie" /\ UNCHANGED detected
    ELSE dpc' = "getServerUser" /\ UNCHANGED detected

\* lines 129-136: the call; step 1 reads the header
DetectCall ==
    /\ dpc = "idle"
    /\ pc = "idle"
    /\ dreq' \in [header : TenantIds \cup {NoId}, cookie : TenantIds \cup {NoId},
                  cred : Credentials, hostname : Hostnames]
    /\ duser' = ""
    /\ dout' = NoLookups
    /\ detected' = NotDetected
    /\ dpc' = IF Truthy(dreq'.header) THEN "validateHeader"
              ELSE IF Truthy(dreq'.cookie) THEN "validateCookie"
              ELSE "getServerUser"
    /\ UNCHANGED <<auxVars, storeVars, envVars, gatewayVars>>

\* lines 136-142: validateAppId(headerAppId) settles
HeaderValidated ==
    /\ dpc = "validateHeader"
    /\ \E v \in ValidateOutcomes(dreq.header) :
         /\ dout' = [dout EXCEPT !.header = v]
         /\ IF v = "throws" THEN DetectThrow
            ELSE IF validateAppId(v) THEN DetectReturn(dreq.header)
            ELSE AfterHeader(dreq.cookie)
    /\ UNCHANGED <<auxVars, storeVars, envVars, gatewayVars, dreq, duser>>

\* lines 142-147: validateAppId(cookieAppId) settles
CookieValidated ==
    /\ dpc = "validateCookie"
    /\ \E v \in ValidateOutcomes(dreq.cookie) :
         /\ dout' = [dout EXCEPT !.cookie = v]
         /\ IF v = "throws" THEN DetectThrow
            ELSE IF validateAppId(v) THEN DetectReturn(dreq.cookie)
            ELSE dpc' = "getServerUser" /\ UNCHANGED detected
    /\ UNCHANGED <<auxVars, storeVars, envVars, gatewayVars, dreq, duser>>

\* getAppIdFromUserMembership, lines 19-24, with getServerUser
\* (src/unnamed/part_007, lines 176-188): error or no user gives null
ServerUserReturns ==
    /\ dpc = "getServerUser"
    /\ \E o \in GetUserOutcomes(dreq.cred) :
         /\ dout' = [dout EXCEPT !.getUser = o]
         /\ CASE o = "throws" -> DetectThrow /\ UNCHANGED duser
              [] o = "user" ->
                   /\ duser' = CredentialUser(dreq.cred)
                   /\ dpc' = "memberQuery"
                   /\ UNCHANGED detected
              [] OTHER -> AfterMembership(dreq.hostname) /\ UNCHANGED duser
    /\ UNCHANGED <<auxVars, storeVars, envVars, gatewayVars, dreq>>

\* getAppIdFromUserMembership, lines 25-37: .limit(1).single() answers with
\* one of the user's rows, or with an error when there is none
MemberQueryReturns ==
    /\ dpc = "memberQuery"
    /\ \E o \in MembersOutcomes :
         /\ dout' = [dout EXCEPT !.members = o]
         /\ CASE o = "throws" -> DetectThrow
              [] o = "rows" /\ members[duser] # {} ->
                   \E t \in members[duser] : DetectReturn(t)
              [] OTHER -> AfterMembership(dreq.hostname)
    /\ UNCHANGED <<auxVars, storeVars, envVars, gatewayVars, dreq, duser>>

\* getAppIdFromSubdomain, lines 92-105, and lines 154-160
SubdomainReturns ==
    /\ dpc = "subdomain"
    /\ \E o \in {"answer", "error", "throws"} :
         LET sub == SubdomainToLookUp(dreq.hostname)
             rows == {t \in apps : SubdomainOf(t) = sub}
         IN  /\ dout' = [dout EXCEPT !.subdomain = o]
             /\ CASE o = "throws" -> DetectThrow
                  [] o = "answer" /\ rows # {} ->
                       \E t \in rows : DetectReturn(t)
                  [] OTHER -> DetectReturn(NoId)
    /\ UNCHANGED <<auxVars, storeVars, envVars, gatewayVars, dreq, duser>>

\* the caller has the result: the call's state is discarded
DetectDiscard ==
    /\ dpc = "done"
    /\ dpc' = "idle"
    /\ dreq' = NoDetectRequest
    /\ duser' = ""
    /\ dout' = NoLookups
    /\ detected' = NotDetected
    /\ UNCHANGED <<auxVars, storeVars, envVars, gatewayVars>>

(***************************************************************************)
(* The gateway together with the stores it reads.                          *)
(***************************************************************************)
Next ==
    \/ \E t \in TenantIds : CreateApp(t)
    \/ \E t \in TenantIds : DeleteApp(t)
    \/ \E u \in UserIds, t \in TenantIds : AddMember(u, t)
    \/ \E u \in UserIds : SignIn(u)
    \/ \E u \in UserIds : SignOut(u)
    \/ Receive
    \/ Discard
    \/ UpstreamHangs
    \/ StartA
    \/ UserReturnsA
    \/ SessionReturnsA
    \/ MembersReturnA
    \/ StartB
    \/ UserReturnsB
    \/ DetectCall
    \/ HeaderValidated
    \/ CookieValidated
    \/ ServerUserReturns
    \/ MemberQueryReturns
    \/ SubdomainReturns
    \/ DetectDiscard

Spec == Init /\ [][Next]_vars

(***************************************************************************)
(* Vocabulary of the properties, stated on the request and the response    *)
(* alone.                                                                  *)
(***************************************************************************)
OnboardingPaths == {"/app/create", "/app/select"}

PublicPaths == { "/", "/login", "/signup", "/features", "/pricing",
                 "/privacy", "/terms", "/auth/callback" }

BypassPrefixes == {"/api/", "/_next/", "/favicon.ico", "/public/"}

\* public, API or static route
Bypassed(path) ==
    path \in PublicPaths \/ \E p \in BypassPrefixes : StartsWith(path, p)

\* a route behind the gateway that is not an onboarding page
GatedPage(path) == ~Bypassed(path) /\ path \notin OnboardingPaths

Decided == pc = "done"

Forwarded == resp.kind = "next"

RedirectedTo(path) ==
    resp.kind = "redirect" /\ resp.location.pathname = path

RedirectedToLogin ==
    RedirectedTo("/login") /\ resp.location.redirect = req.path

\* forwarded with tenant id t in both the header and the cookie
Carries(t) ==
    /\ resp.kind = "next"
    /\ resp.xAppId = t
    /\ resp.cookie.value = t

\* the identity provider rejected the credential explicitly
Rejected == outcome.getUser \in {"error", "nouser"}

\* the session check produced no answer: the client could not be built or
\* an identity-provider call rejected
Indeterminate ==
    \/ outcome.client = "throws"
    \/ outcome.getUser = "throws"
    \/ outcome.getSession = "throws"

\* the session check completed as valid (revision A also needs the session
\* record)
Authenticated ==
    /\ outcome.getUser = "user"
    /\ rev = "A" => outcome.getSession = "session"

NoSignal == req.header = NoId /\ req.cookie = NoId

\* C1: a request to /app/create or /app/select is never answered with a
\* redirect to /app/create or /app/select, in either revision
C1_NoOnboardingLoop ==
    (Decided /\ req.path \in OnboardingPaths)
        => ~(\E p \in OnboardingPaths : RedirectedTo(p))

\* revision A reaches its membership block on the selection page and lets the
\* request through
C1_Witness ==
    /\ Decided
    /\ rev = "A"
    /\ req.path = "/app/select"
    /\ Authenticated
    /\ NoSignal
    /\ Cardinality(members[user]) = 2
    /\ Forwarded

C3_FailClosedLogin ==
    (Decided /\ ~Bypassed(req.path) /\ Rejected)
        => /\ RedirectedToLogin
           /\ resp.xAppId = NoId
           /\ resp.cookie = NoCookie

C3_Witness ==
    /\ Decided
    /\ rev = "B"
    /\ req.path = "/dashboard"
    /\ req.cred = "tok-forged"
    /\ outcome.getUser = "error"
    /\ RedirectedToLogin

\* the decision a membership count n asks for
ByCardinality(n) ==
    /\ n = 0 => RedirectedTo("/app/create")
    /\ n = 1 => \E t \in members[user] :
                    Carries(t) /\ resp.cookie = AppIdCookie(t)
    /\ n >= 2 => RedirectedTo("/app/select")

\* an authenticated request for a gated page without tenant signal
C4_Case ==
    /\ Decided
    /\ Authenticated
    /\ GatedPage(req.path)
    /\ NoSignal

BothValid(header, cookie) ==
    /\ header # NoId
    /\ cookie # NoId
    /\ header # cookie
    /\ header \in apps
    /\ cookie \in apps

C6_AllowCarriesCatalogTenant ==
    (Decided /\ Forwarded /\ resp.xAppId # NoId) => resp.xAppId \in apps

\* C7: a cookie naming a tenant that is not in the catalog, on a gated page
\* of an authenticated request without header, is answered with a redirect
\* to /app/select that does not set the stale id again
C7_StaleTenantCleanup ==
    (/\ Decided
     /\ Authenticated
     /\ GatedPage(req.path)
     /\ req.header = NoId
     /\ req.cookie # NoId
     /\ req.cookie \notin apps)
        => /\ RedirectedTo("/app/select")
           /\ resp.cookie.value # req.cookie
           /\ resp.xAppId # req.cookie

\* C8: a request for a public, API or static route is forwarded unmodified
\* and no identity-provider call and no membership query is issued for it
C8_StartShortCircuit ==
    (pc # "idle" /\ Bypassed(req.path))
        => /\ calls = NoCalls
           /\ outcome = NoOutcome
           /\ pc \in {"start", "done"}
           /\ Decided => resp = ResponseNext

C8_Witness ==
    /\ Decided
    /\ req.path = "/public/logo.png"
    /\ req.cred = "tok-forged"
    /\ req.cookie = "T1"
    /\ resp = ResponseNext
    /\ calls = NoCalls

\* C9: when the membership query returns an error or throws, the request is
\* forwarded unmodified
C9_FailOpenMembership ==
    (Decided /\ NoSignal /\ outcome.members \in {"error", "throws"})
        => resp = ResponseNext

\* C10 as stated: a request to an onboarding path is always forwarded
C10_AsStated ==
    (Decided /\ req.path \in OnboardingPaths) => Forwarded

\* C10 amended: a request to an onboarding path is forwarded, except that
\* revision A redirects it to /login when the identity provider rejects the
\* credential or there is no session record; revision B forwards it before
\* any auth check
C10_OnboardingForwarded ==
    (Decided /\ req.path \in OnboardingPaths)
        => /\ rev = "B" => resp = ResponseNext /\ calls = NoCalls
           /\ rev = "A" =>
                IF Rejected \/ outcome.getSession = "nosession"
                THEN RedirectedToLogin
                ELSE Forwarded

C10_Witness ==
    /\ Decided
    /\ rev = "B"
    /\ req.path = "/app/create"
    /\ req.cred = "tok-forged"
    /\ resp = ResponseNext

\* C12: a response that sets the x-app-id header or the app_id cookie is a
\* forward that sets both to the same tenant id, the cookie with path '/' and
\* max-age 31,536,000; a redirect sets neither
C12_PropagationConsistent ==
    (resp.xAppId # NoId \/ resp.cookie.value # NoId)
        => /\ resp.kind = "next"
           /\ resp.cookie.value = resp.xAppId
           /\ resp.cookie.path = "/"
           /\ resp.cookie.maxAge = 31536000

C12_Witness ==
    /\ Decided
    /\ rev = "A"
    /\ NoSignal
    /\ outcome.members = "rows"
    /\ resp.kind = "next"
    /\ resp.xAppId = "T2"
    /\ resp.cookie = [value |-> "T2", path |-> "/", maxAge |-> 31536000]

\* C13: every redirect goes to /login with the redirect parameter set to the
\* request path, or to /app/create or /app/select without parameter
C13_RedirectTargetsClosed ==
    resp.kind = "redirect"
        => \/ resp.location.pathname = "/login"
              /\ resp.location.redirect = req.path
           \/ resp.location.pathname \in {"/app/create", "/app/select"}
              /\ resp.location.redirect = ""

C13_Witness ==
    /\ Decided
    /\ rev = "A"
    /\ outcome.members = "error"
    /\ resp.kind = "redirect"
    /\ resp.location.pathname = "/app/select"
    /\ resp.location.redirect = ""

\* getAppIdFromRequest has returned (not thrown)
Detected == dpc = "done" /\ detected.status = "returned"

\* validateAppId answered false for the lookup
FailedValidation(answer) == answer \in {"norow", "error"}

\* C15: in getAppIdFromRequest a header that fails validateAppId is dropped
\* and the cookie is tried, a cookie that fails is dropped and membership
\* inference is tried; a failed id is not an error, an id that is not in the
\* catalog is never returned, and a valid cookie is returned when the header
\* is present but invalid
C15_FallThrough ==
    /\ (dpc = "done" /\ detected.status = "threw")
          => \E f \in DOMAIN dout : dout[f] = "throws"
    /\ Detected
          => /\ detected.id # NoId => detected.id \in apps
             /\ FailedValidation(dout.header) /\ dreq.cookie # NoId
                  => dout.cookie # "none"
             /\ FailedValidation(dout.header) /\ dout.cookie = "row"
                  => detected.id = dreq.cookie
             /\ FailedValidation(dout.cookie) => dout.getUser # "none"
             /\ FailedValidation(dout.header) /\ dreq.cookie = NoId
                  => dout.getUser # "none"

C15_Witness ==
    /\ Detected
    /\ dreq.header = "T1"
    /\ dreq.cookie = "T2"
    /\ dout.header = "norow"
    /\ dout.cookie = "row"
    /\ detected.id = "T2"

\* C16: when neither header nor cookie yields a tenant and the user has two
\* or more memberships, membership inference returns none of them
C16_SingleMembershipOnly ==
    (/\ Detected
     /\ dout.members = "rows"
     /\ dout.subdomain = "none"
     /\ Cardinality(members[duser]) >= 2)
        => detected.id = NoId

(***************************************************************************)
(* Progress of a request.  The gateway alone, with the stores it reads:    *)
(* a handler that is not suspended at an await runs on, and an await       *)
(* resumes when the upstream call settles (weak fairness of the handler's  *)
(* steps).  Nothing in either revision resumes an await whose call never   *)
(* settles.                                                                *)
(***************************************************************************)
HandlerStep ==
    \/ StartA
    \/ UserReturnsA
    \/ SessionReturnsA
    \/ MembersReturnA
    \/ StartB
    \/ UserReturnsB

NextLive ==
    \/ \E t \in TenantIds : CreateApp(t)
    \/ \E t \in TenantIds : DeleteApp(t)
    \/ \E u \in UserIds, t \in TenantIds : AddMember(u, t)
    \/ \E u \in UserIds : SignIn(u)
    \/ \E u \in UserIds : SignOut(u)
    \/ Receive
    \/ Discard
    \/ UpstreamHangs
    \/ HandlerStep

SpecLive == Init /\ [][NextLive]_vars /\ WF_vars(HandlerStep)

\* C11: every request the middleware starts to handle eventually receives a
\* decision, even when the identity provider or the membership store never
\* answers
C11_EventualDecision == (pc = "start") ~> (pc = "done")

(***************************************************************************)
(* One browser against the gateway: a first request, then requests that    *)
(* repeat it, unchanged or with the app_id cookie the last response set.   *)
(* prev keeps the last answered request with the stores and the upstream   *)
(* answers it was decided on.                                              *)
(***************************************************************************)
MaxVisits == 2

BrowserPaths == {"/login", "/app/create", "/dashboard"}

BrowserCredentials == {"", "tok-u1"}

\* the handler is invoked: every local of the invocation is fresh
Arrive(revision, request) ==
    /\ pc = "idle"
    /\ dpc = "idle"
    /\ nreq < MaxVisits
    /\ nreq' = nreq + 1
    /\ rev' = revision
    /\ req' = request
    /\ pc' = "start"
    /\ user' = ""
    /\ authCheckSucceeded' = FALSE
    /\ appId' = NoId
    /\ outcome' = NoOutcome
    /\ calls' = NoCalls
    /\ resp' = NoResponse
    /\ UNCHANGED <<auxVars, detVars, storeVars, envVars>>

Visit ==
    /\ nreq = 0
    /\ \E revision \in Revisions :
       \E request \in [path : BrowserPaths, header : TenantIds \cup {NoId},
                       cookie : TenantIds \cup {NoId},
                       cred : BrowserCredentials] :
          Arrive(revision, request)

\* the same request again
Replay ==
    /\ prev.resp.kind # "none"
    /\ Arrive(prev.rev, prev.req)

\* the same request again, with the cookie of the last response's Set-Cookie
FollowUp ==
    /\ prev.resp.kind # "none"
    /\ prev.resp.cookie.value # NoId
    /\ Arrive(prev.rev, [prev.req EXCEPT !.cookie = prev.resp.cookie.value])

\* the response has been sent: the request-scoped state is discarded
Remember ==
    /\ pc = "done"
    /\ prev' = [rev |-> rev, req |-> req, outcome |-> outcome, apps |-> apps,
                members |-> members, signedIn |-> signedIn, resp |-> resp]
    /\ pc' = "idle"
    /\ req' = NoRequest
    /\ rev' = "A"
    /\ user' = ""
    /\ authCheckSucceeded' = FALSE
    /\ appId' = NoId
    /\ outcome' = NoOutcome
    /\ calls' = NoCalls
    /\ resp' = NoResponse
    /\ UNCHANGED <<sideVars, ra, cacheVars, detVars, storeVars, envVars,
                   nreq>>

InitBrowser == Init /\ envUrl = "" /\ nodeEnv = "production"

NextBrowser ==
    \/ \E t \in TenantIds : CreateApp(t)
    \/ \E t \in TenantIds : DeleteApp(t)
    \/ \E u \in UserIds, t \in TenantIds : AddMember(u, t)
    \/ \E u \in UserIds : SignIn(u)
    \/ \E u \in UserIds : SignOut(u)
    \/ Visit
    \/ Replay
    \/ FollowUp
    \/ Remember
    \/ StartA
    \/ UserReturnsA
    \/ SessionReturnsA
    \/ MembersReturnA
    \/ StartB
    \/ UserReturnsB

SpecBrowser == InitBrowser /\ [][NextBrowser]_vars

Answered == prev.resp.kind # "none"

SameSignals == rev = prev.rev /\ req = prev.req

SameBackingState ==
    /\ outcome = prev.outcome
    /\ apps = prev.apps
    /\ members = prev.members
    /\ signedIn = prev.signedIn

AutoResolved(t) ==
    /\ prev.rev = "A"
    /\ prev.req.header = NoId
    /\ prev.req.cookie = NoId
    /\ prev.outcome.members = "rows"
    /\ prev.resp.kind = "next"
    /\ prev.resp.xAppId = t
    /\ prev.resp.cookie.value = t

PresentsSetCookie ==
    /\ rev = prev.rev
    /\ req = [prev.req EXCEPT !.cookie = prev.resp.cookie.value]

\* C17: after revision A resolved a request without header and cookie to T
\* from the user's single membership, the next request of that user with the
\* app_id cookie of that response issues no membership query and, once the
\* user is authenticated again, is forwarded with T
C17_PersistBack ==
    \A t \in TenantIds :
        (AutoResolved(t) /\ PresentsSetCookie)
            => /\ calls.members = 0
               /\ outcome.queryClient = "none"
               /\ (Decided /\ Authenticated) => Carries(t)

C17_Witness ==
    /\ AutoResolved("T1")
    /\ PresentsSetCookie
    /\ Decided
    /\ Authenticated
    /\ Carries("T1")
    /\ calls.members = 0

(***************************************************************************)
(* requireAuth (src/unnamed/part_007): the server-side guard of pages.     *)
(* redirect() of next/navigation throws, so nothing runs after it.         *)
(***************************************************************************)
\* the call is over: it returned, redirected or threw
AuthCallEnds(result) ==
    [ra EXCEPT !.pc = "done", !.result = result]

\* a missing session record is let through
requireAuthAfterSession_Lenient(answer) == "returned"

\* lines 37-45: `if (!session) redirect(redirectTo)`, else return
requireAuthAfterSession(answer) ==
    IF answer = "session" THEN "returned" ELSE "redirect"

\* line 23: the call; createServerSupabaseClient() is awaited
RequireAuthCall ==
    /\ ra.pc = "idle"
    /\ pc = "idle"
    /\ dpc = "idle"
    /\ \E cred \in Credentials :
         ra' = [NoAuthCall EXCEPT !.pc = "awaitClient", !.cred = cred]
    /\ UNCHANGED <<sideVars, prev, cacheVars, detVars, storeVars, envVars,
                   gatewayVars>>

\* lines 23-27: the client is there, getUser is issued
AuthClientReturns ==
    /\ ra.pc = "awaitClient"
    /\ \E c \in ClientOutcomes :
         ra' = IF c = "throws" THEN AuthCallEnds("threw")
               ELSE [ra EXCEPT !.pc = "awaitUser",
                               !.order = Append(@, "getUser")]
    /\ UNCHANGED <<sideVars, prev, cacheVars, detVars, storeVars, envVars,
                   gatewayVars>>

\* lines 24-36: getUser settles; on a user getSession is issued
AuthUserReturns ==
    /\ ra.pc = "awaitUser"
    /\ \E o \in GetUserOutcomes(ra.cred) :
         ra' = CASE o = "throws" ->
                      [AuthCallEnds("threw") EXCEPT !.getUser = o]
                 [] o \in {"error", "nouser"} ->
                      [AuthCallEnds("redirect") EXCEPT !.getUser = o]
                 [] o = "user" ->
                      [ra EXCEPT !.getUser = o, !.pc = "awaitSession",
                                 !.order = Append(@, "getSession")]
    /\ UNCHANGED <<sideVars, prev, cacheVars, detVars, storeVars, envVars,
                   gatewayVars>>

\* lines 34-45: getSession settles
AuthSessionReturns ==
    /\ ra.pc = "awaitSession"
    /\ \E o \in GetSessionOutcomes :
         ra' = IF o = "throws"
               THEN [AuthCallEnds("threw") EXCEPT !.getSession = o]
               ELSE [AuthCallEnds(requireAuthAfterSession(o))
                        EXCEPT !.getSession = o]
    /\ UNCHANGED <<sideVars, prev, cacheVars, detVars, storeVars, envVars,
                   gatewayVars>>

\* the page has the result: the call's state is discarded
AuthDiscard ==
    /\ ra.pc = "done"
    /\ ra' = NoAuthCall
    /\ UNCHANGED <<sideVars, prev, cacheVars, detVars, storeVars, envVars,
                   gatewayVars>>

\* a request arrives while no page is inside requireAuth: the page runs
\* after the middleware forwarded its request
ReceiveBeforePage == ra.pc = "idle" /\ Receive

\* the gateway, requireAuth and the identity provider they both call
NextAuth ==
    \/ \E t \in TenantIds : CreateApp(t)
    \/ \E t \in TenantIds : DeleteApp(t)
    \/ \E u \in UserIds, t \in TenantIds : AddMember(u, t)
    \/ \E u \in UserIds : SignIn(u)
    \/ \E u \in UserIds : SignOut(u)
    \/ ReceiveBeforePage
    \/ Discard
    \/ UpstreamHangs
    \/ StartA
    \/ UserReturnsA
    \/ SessionReturnsA
    \/ MembersReturnA
    \/ StartB
    \/ UserReturnsB
    \/ RequireAuthCall
    \/ AuthClientReturns
    \/ AuthUserReturns
    \/ AuthSessionReturns
    \/ AuthDiscard

SpecAuth == Init /\ [][NextAuth]_vars

\* the gateway treats the request as authenticated: it holds a user, the
\* session check did produce an answer, and the answer is not the redirect
\* to the login page
AuthOK ==
    /\ Decided
    /\ Truthy(user)
    /\ ~Indeterminate
    /\ ~RedirectedToLogin

\* getSession is issued only after getUser answered with a user
SessionFetchAfterVerification ==
    /\ calls.getSession > 0 => outcome.getUser = "user"
    /\ \A i \in 1..Len(ra.order) :
         ra.order[i] = "getSession"
             => i = 2 /\ ra.order[1] = "getUser" /\ ra.getUser = "user"

\* requireAuth returns only after both checks succeeded, in that order
RequireAuthTwoChecks ==
    /\ ra.result = "returned"
          => /\ ra.order = <<"getUser", "getSession">>
             /\ ra.getUser = "user"
             /\ ra.getSession = "session"
    /\ (ra.pc = "done" /\ ra.getSession = "nosession")
          => ra.result = "redirect"

CACHE_TTL == 300000

TickMs == CACHE_TTL \div 2

MaxTicks == 3

\* an entry is served up to and including the age of the TTL
IsFresh_Inclusive(cached, t) ==
    cached.present /\ t - cached.timestamp <= CACHE_TTL

\* line 75: cached && Date.now() - cached.timestamp < CACHE_TTL
IsFresh(cached, t) ==
    cached.present /\ t - cached.timestamp < CACHE_TTL

\* loadAppFromDatabase, lines 28-41: a row, no row, another error (both
\* null), or a rejected promise
AppLoadOutcomes(t) ==
    (IF t \in apps THEN {"row"} ELSE {"norow"}) \cup {"error", "throws"}

\* loadAppConfigFromDatabase, lines 46-59
ConfigLoadOutcomes == {"row", "norow", "error", "throws"}

\* getAppConfig returns (or throws): the call is over
CallEnds(c, result) ==
    callers' = [callers EXCEPT ![c].pc = "done", ![c].result = result]

Tick ==
    /\ now < MaxTicks * TickMs
    /\ now' = now + TickMs
    /\ UNCHANGED <<sideVars, hist, prev, ra, configCache, callers, detVars,
                   storeVars, envVars, gatewayVars>>

\* lines 68-83: the call; a fresh entry is returned, else the app load is
\* issued
GetAppConfigCall(c, t, useCache) ==
    /\ callers[c].pc = "idle"
    /\ IF useCache /\ IsFresh(configCache[t], now)
       THEN callers' = [callers EXCEPT ![c] =
                [pc |-> "done", appId |-> t, useCache |-> useCache,
                 result |-> [kind |-> "app", fromCache |-> TRUE,
                             age |-> now - configCache[t].timestamp,
                             config |-> IF configCache[t].config = "row"
                                        THEN "row" ELSE "undefined"]]]
       ELSE callers' = [callers EXCEPT ![c] =
                [pc |-> "awaitApp", appId |-> t, useCache |-> useCache,
                 result |-> NoResult]]
    /\ UNCHANGED <<sideVars, hist, prev, ra, configCache, now, detVars,
                   storeVars, envVars, gatewayVars>>

\* lines 84-89: loadAppFromDatabase settles; null for no app, else the
\* config load is issued
AppLoaded(c) ==
    /\ callers[c].pc = "awaitApp"
    /\ \E o \in AppLoadOutcomes(callers[c].appId) :
         CASE o = "throws" -> CallEnds(c, [NoResult EXCEPT !.kind = "threw"])
           [] o = "row" -> callers' = [callers EXCEPT ![c].pc = "awaitConfig"]
           [] OTHER -> CallEnds(c, [NoResult EXCEPT !.kind = "null"])
    /\ UNCHANGED <<sideVars, hist, prev, ra, configCache, now, detVars,
                   storeVars, envVars, gatewayVars>>

\* lines 89-103: loadAppConfigFromDatabase settles; the entry is replaced
\* and the app is returned with its config or {}
ConfigLoaded(c) ==
    /\ callers[c].pc = "awaitConfig"
    /\ \E o \in ConfigLoadOutcomes :
         IF o = "throws"
         THEN /\ CallEnds(c, [NoResult EXCEPT !.kind = "threw"])
              /\ UNCHANGED configCache
              /\ hist' = [hist EXCEPT !.stale[c] = FALSE]
         ELSE /\ CallEnds(c, [kind |-> "app", fromCache |-> FALSE, age |-> 0,
                              config |-> IF o = "row" THEN "row"
                                         ELSE "empty"])
              /\ configCache' =
                   IF callers[c].useCache
                   THEN [configCache EXCEPT ![callers[c].appId] =
                           [present |-> TRUE,
                            config |-> IF o = "row" THEN "row" ELSE "null",
                            timestamp |-> now]]
                   ELSE configCache
              /\ hist' =
                   IF callers[c].useCache
                   THEN [hist EXCEPT
                           !.returned[callers[c].appId] =
                               IF o = "row" THEN "row" ELSE "empty",
                           !.stale[c] = FALSE]
                   ELSE hist
    /\ UNCHANGED <<sideVars, prev, ra, now, detVars, storeVars, envVars,
                   gatewayVars>>

\* the caller has the result
CallerDiscard(c) ==
    /\ callers[c].pc = "done"
    /\ callers' = [callers EXCEPT ![c] = NoCall]
    /\ UNCHANGED <<sideVars, hist, prev, ra, configCache, now, detVars,
                   storeVars, envVars, gatewayVars>>

\* the calls that use the cache and have read the app row of a key in keys
\* are marked; the history of the entries of these keys is dropped with them
Invalidated(keys) ==
    [returned |-> [t \in TenantIds |->
                     IF t \in keys THEN "" ELSE hist.returned[t]],
     stale |-> [c \in CallerIds |->
                  \/ hist.stale[c]
                  \/ /\ callers[c].appId \in keys
                     /\ callers[c].useCache
                     /\ callers[c].pc = "awaitConfig"]]

\* lines 109-111
invalidateAppConfigCache(t) ==
    /\ configCache' = [configCache EXCEPT ![t] = NoEntry]
    /\ hist' = Invalidated({t})
    /\ UNCHANGED <<sideVars, prev, ra, now, callers, detVars, storeVars,
                   envVars, gatewayVars>>

\* lines 116-118
clearAppConfigCache ==
    /\ configCache' = [t \in TenantIds |-> NoEntry]
    /\ hist' = Invalidated(TenantIds)
    /\ UNCHANGED <<sideVars, prev, ra, now, callers, detVars, storeVars,
                   envVars, gatewayVars>>

InitCache == Init /\ envUrl = "" /\ nodeEnv = "production"

NextCache ==
    \/ \E t \in TenantIds : CreateApp(t)
    \/ \E t \in TenantIds : DeleteApp(t)
    \/ Tick
    \/ \E c \in CallerIds, t \in TenantIds, useCache \in BOOLEAN :
         GetAppConfigCall(c, t, useCache)
    \/ \E c \in CallerIds : AppLoaded(c)
    \/ \E c \in CallerIds : ConfigLoaded(c)
    \/ \E c \in CallerIds : CallerDiscard(c)
    \/ \E t \in TenantIds : invalidateAppConfigCache(t)
    \/ clearAppConfigCache

SpecCache == InitCache /\ [][NextCache]_vars

\* caller c calls getAppConfig in this step
Calls(c) == callers[c].pc = "idle" /\ callers'[c].pc # "idle"

\* the entry of key t was stored less than 5 minutes ago
StoredWithinTTL(t) ==
    configCache[t].present /\ now - configCache[t].timestamp < 300000

\* caller c's call returns the app it loaded in this step
ReturnsLoaded(c) ==
    /\ callers[c].pc = "awaitConfig"
    /\ callers'[c].pc = "done"
    /\ callers'[c].result.kind = "app"

\* C19: getAppConfig(appId, true) returns the cached entry if and only if it
\* was stored less than 300,000 ms before the call, so no call returns an
\* entry of age >= TTL; otherwise, and with useCache = false, it issues the
\* app load; a successful load with useCache = true replaces the entry with
\* the loaded value and the current time
C19_CacheTTL ==
    [][\A c \in CallerIds :
         LET t == callers'[c].appId
             k == callers'[c]
         IN  /\ Calls(c)
                  => IF k.useCache /\ StoredWithinTTL(t)
                     THEN /\ k.pc = "done"
                          /\ k.result.fromCache
                          /\ k.result.age = now - configCache[t].timestamp
                          /\ k.result.age < 300000
                     ELSE k.pc = "awaitApp" /\ ~k.result.fromCache
             /\ (ReturnsLoaded(c) /\ k.useCache)
                  => /\ configCache'[t].present
                     /\ configCache'[t].timestamp = now
                     /\ ~k.result.fromCache]_vars

C19_Witness ==
    \E c \in CallerIds, d \in CallerIds :
        /\ callers[c].pc = "done"
        /\ callers[c].result.fromCache
        /\ callers[c].result.age > 0
        /\ callers[d].pc = "awaitApp"
        /\ callers[d].useCache
        /\ callers[d].appId = callers[c].appId
        /\ configCache[callers[d].appId].present
        /\ now - configCache[callers[d].appId].timestamp >= 300000

\* the loads in flight for key t on behalf of calls that use the cache
LoadsInFlight(t) ==
    {c \in CallerIds : /\ callers[c].appId = t
                       /\ callers[c].useCache
                       /\ callers[c].pc \in {"awaitApp", "awaitConfig"}}

\* C20: overlapping getAppConfig(appId, true) calls that miss the cache
\* collapse into one backing fetch: at most one load is in flight per key
C20_SingleFlight ==
    \A t \in TenantIds : Cardinality(LoadsInFlight(t)) <= 1

(***************************************************************************)
(* Redirect construction.                                                  *)
(***************************************************************************)
\* NEXT_PUBLIC_APP_URL is usable as it stands: an http(s) URL
ConfiguredHttp == StartsWith(envUrl, "http://") \/ StartsWith(envUrl, "https://")

\* the origin the request came in on, when the handler supplies it to
\* createAppUrl (revision B does, revision A does not)
SuppliedOrigin == IF rev = "B" THEN "https://board.test" ELSE ""

\* the redirect the handler intends for this request is in the response,
\* whatever the configured base URL is
IntendedRedirectEmitted ==
    /\ (Decided /\ Rejected) => RedirectedToLogin
    /\ resp.kind = "redirect"
          => /\ resp.location.pathname \in {"/login", "/app/create",
                                            "/app/select"}
             /\ resp.location.origin # ""

TenantStep ==
    \/ appId # NoId
    \/ outcome.queryClient # "none"
    \/ calls.members > 0
    \/ resp.xAppId # NoId
    \/ resp.cookie.value # NoId

OuterCatchA ==
    /\ rev = "A"
    /\ \/ outcome.client = "throws"
       \/ outcome.getUser = "throws"
       \/ outcome.getSession = "throws"

\* an exception was caught by an inner handler: the catch around the
\* membership query in revision A (lines 137-141), the catch around the auth
\* check in revision B (lines 86-93)
InnerCatchMembership ==
    rev = "A" /\ (outcome.queryClient = "throws" \/ outcome.members = "throws")

InnerCatchAuthB == rev = "B" /\ Indeterminate

\* C23: whatever a collaborator throws, an invocation that ends has returned
\* one response, a forward or a redirect, and none before it ends; an
\* exception that reaches the outer catch gives a plain forward without
\* tenant header or cookie; the inner handlers give the redirect to
\* /app/select (membership query, revision A) and a forward (auth check,
\* revision B)
C23_Total ==
    /\ Decided => resp.kind \in {"next", "redirect"}
    /\ ~Decided => resp.kind = "none"
    /\ (Decided /\ OuterCatchA)
          => resp.kind = "next" /\ resp.xAppId = NoId /\ resp.cookie.value = NoId
    /\ (Decided /\ InnerCatchMembership) => RedirectedTo("/app/select")
    /\ (Decided /\ InnerCatchAuthB) => Forwarded

C23_Witness ==
    /\ Decided
    /\ rev = "A"
    /\ outcome.getSession = "throws"
    /\ req.cookie = "T1"
    /\ resp.kind = "next"
    /\ resp.xAppId = NoId
    /\ resp.cookie.value = NoId

(***************************************************************************)
(* resolveAccessRedirectServer (src/lib/auth/permissions-server.ts).       *)
(* A result of "null" is the value null.                                   *)
(***************************************************************************)
appRoutes ==
    {"/dashboard", "/documents", "/query", "/history", "/settings", "/app/"}

isAppRoutePath(pathname) ==
    \E route \in appRoutes : StartsWith(pathname, route)

\* lines 41-42
isAppCreationRoute(pathname) ==
    StartsWith(pathname, "/app/create") \/ StartsWith(pathname, "/app/select")

\* the pathnames the function is called with
IntendedPaths ==
    {"/", "/login", "/dashboard", "/dashboards", "/documents/7", "/app/create",
     "/app/select/x", "/app/", "/app/members", "/apps", "/query", "/history",
     "/settings/profile"}

\* the answers of the app_members query: no error and no row, no error and
\* a row, the schema cache error, another error, a rejected promise
MemberCheckOutcomes(userId) ==
    (IF members[userId] = {} THEN {"empty"} ELSE {"row"})
        \cup {"PGRST205", "error", "throws"}

\* a failed membership check sends the user to app creation
resolveAfterMemberCheck_FailClosed(answer, pathname) ==
    IF answer = "row" THEN "null"
    ELSE IF isAppRoutePath(pathname) THEN "/app/create" ELSE "null"

\* lines 75-133: what is returned once the query settled
resolveAfterMemberCheck(answer, pathname) ==
    IF answer = "throws" THEN "null"
    ELSE IF answer \in {"PGRST205", "error"} THEN "null"
    ELSE IF answer = "empty"
         THEN IF isAppRoutePath(pathname) THEN "/app/create" ELSE "null"
         ELSE "null"

\* lines 35-61: the call; onboarding routes return at once, else the admin
\* client is built and the query is issued
ResolveCall ==
    /\ rr.pc = "idle"
    /\ \E userId \in UserIds, pathname \in IntendedPaths :
         IF isAppCreationRoute(pathname)
         THEN rr' = [NoRedirectCall EXCEPT !.pc = "done", !.userId = userId,
                                           !.pathname = pathname,
                                           !.result = "null"]
         ELSE \E c \in ClientOutcomes :
                rr' = IF c = "throws"
                      THEN [NoRedirectCall EXCEPT !.pc = "done",
                                                  !.userId = userId,
                                                  !.pathname = pathname,
                                                  !.answer = "throws",
                                                  !.result = "null"]
                      ELSE [NoRedirectCall EXCEPT !.pc = "awaitMembers",
                                                  !.userId = userId,
                                                  !.pathname = pathname]
    /\ UNCHANGED <<prev, ra, cacheVars, tls, logVars, detVars, storeVars,
                   envVars, gatewayVars>>

\* lines 57-133: the query settles
ResolveMembersReturn ==
    /\ rr.pc = "awaitMembers"
    /\ \E o \in MemberCheckOutcomes(rr.userId) :
         rr' = [rr EXCEPT !.pc = "done", !.answer = o,
                          !.result = resolveAfterMemberCheck(o, rr.pathname)]
    /\ UNCHANGED <<prev, ra, cacheVars, tls, logVars, detVars, storeVars,
                   envVars, gatewayVars>>

\* the API route has the result
ResolveDiscard ==
    /\ rr.pc = "done"
    /\ rr' = NoRedirectCall
    /\ UNCHANGED <<prev, ra, cacheVars, tls, logVars, detVars, storeVars,
                   envVars, gatewayVars>>

NextResolve ==
    \/ \E t \in TenantIds : CreateApp(t)
    \/ \E t \in TenantIds : DeleteApp(t)
    \/ \E u \in UserIds, t \in TenantIds : AddMember(u, t)
    \/ ResolveCall
    \/ ResolveMembersReturn
    \/ ResolveDiscard

SpecResolve == Init /\ [][NextResolve]_vars

\* the pathname starts with one of the app-route prefixes
UnderAppPrefix(pathname) ==
    \E prefix \in {"/dashboard", "/documents", "/query", "/history",
                   "/settings", "/app/"} :
        Len(pathname) >= Len(prefix)
            /\ SubSeq(pathname, 1, Len(prefix)) = prefix

OnCreationRoute(pathname) ==
    \E prefix \in {"/app/create", "/app/select"} :
        Len(pathname) >= Len(prefix)
            /\ SubSeq(pathname, 1, Len(prefix)) = prefix

\* C24: resolveAccessRedirectServer returns '/app/create' exactly when the
\* pathname is not under /app/create or /app/select, the membership query
\* completed without error or exception with zero rows for the user, and the
\* pathname is under an app-route prefix; otherwise it returns null; it
\* returns nothing else and never throws; "zero rows" is the user's
\* membership at the moment the query settles
C24_RedirectIffNoMembership ==
    /\ [](rr.pc = "done"
            => /\ rr.result \in {"/app/create", "null"}
               /\ rr.result = "/app/create"
                    <=> /\ ~OnCreationRoute(rr.pathname)
                        /\ rr.answer = "empty"
                        /\ UnderAppPrefix(rr.pathname))
    /\ [][(rr.pc = "awaitMembers" /\ rr'.pc = "done")
            => /\ rr'.answer = "empty" => members[rr.userId] = {}
               /\ rr'.answer = "row" => members[rr.userId] # {}]_vars

C24_Witness ==
    /\ rr.pc = "done"
    /\ rr.pathname = "/app/members"
    /\ rr.answer = "empty"
    /\ rr.result = "/app/create"

(***************************************************************************)
(* configureLocalTLS (src/lib/utils/tls.ts).  tls.writes counts the        *)
(* assignments the function made to NODE_TLS_REJECT_UNAUTHORIZED,          *)
(* tls.writtenFor keeps the url of the call that made the last one and     *)
(* tls.lastUrl the url of the last call.                                   *)
(***************************************************************************)
MaxTlsCalls == 3

\* String.prototype.includes
Includes(s, sub) ==
    \E i \in 1..(Len(s) - Len(sub) + 1) : SubSeq(s, i, i + Len(sub) - 1) = sub

\* the urls the function is called with; "" is a call without url
TlsUrls ==
    {"", "https://localhost:54321", "https://127.0.0.1:54321",
     "https://db.board.test", "https://localhost.evil.test"}

\* line 32
isLocal(url) == Includes(url, "127.0.0.1") \/ Includes(url, "localhost")

\* lines 24-55; writable is whether the assignment to process.env succeeds
configureLocalTLS(url, writable) ==
    /\ tls.calls < MaxTlsCalls
    /\ LET called == [tls EXCEPT !.calls = @ + 1, !.lastUrl = url]
       IN  tls' =
             IF nodeEnv # "development" THEN called
             ELSE IF url # "" /\ ~isLocal(url) THEN called
             ELSE IF tls.configured \/ tls.reject = "0" THEN called
             ELSE IF writable
                  THEN [called EXCEPT !.reject = "0", !.configured = TRUE,
                                      !.writes = @ + 1, !.writtenFor = url]
                  ELSE called
    /\ UNCHANGED <<prev, ra, cacheVars, rr, logVars, detVars, storeVars,
                   envVars, gatewayVars>>

\* the variable is set from outside the function: by the shell that starts
\* the process, or by other code of the process
EnvironmentSetsReject(v) ==
    /\ tls.reject # v
    /\ tls' = [tls EXCEPT !.reject = v]
    /\ UNCHANGED <<prev, ra, cacheVars, rr, logVars, detVars, storeVars,
                   envVars, gatewayVars>>

NextTls ==
    \/ \E url \in TlsUrls, writable \in BOOLEAN : configureLocalTLS(url, writable)
    \/ \E v \in {"0", "1"} : EnvironmentSetsReject(v)

SpecTls == Init /\ [][NextTls]_vars

\* the host a url names
HostOf(url) ==
    LET rest == SubSeq(url, Len("https://") + 1, Len(url))
        ends == {i \in 1..Len(rest) : SubSeq(rest, i, i) \in {":", "/"}}
    IN  IF ends = {} THEN rest
        ELSE SubSeq(rest, 1, (CHOOSE i \in ends : \A j \in ends : i <= j) - 1)

RefersToLocalhost(url) == HostOf(url) \in {"localhost", "127.0.0.1"}

\* C25: configureLocalTLS writes NODE_TLS_REJECT_UNAUTHORIZED only when
\* NODE_ENV is 'development' and the url, if given, refers to localhost or
\* 127.0.0.1, and writes it at most once whatever the sequence of calls
C25_OnlyLocalDevelopment ==
    /\ tls.writes <= 1
    /\ tls.configured <=> tls.writes = 1
    /\ tls.writes > 0
          => /\ nodeEnv = "development"
             /\ tls.writtenFor = "" \/ RefersToLocalhost(tls.writtenFor)

\* C26: a request of an authenticated user that is forwarded with tenant
\* context T belongs to a member of T at the time of the decision, whether T
\* came from the header, the cookie or membership inference
C26_BindingImpliesMembership ==
    (Decided /\ Authenticated /\ Forwarded /\ resp.xAppId # NoId)
        => resp.xAppId \in members[CredentialUser(req.cred)]

(***************************************************************************)
(* A browser that follows redirects: a first request, then the request for *)
(* the target of the redirect it was answered with, same credential,       *)
(* header and cookie.                                                      *)
(***************************************************************************)
FollowRedirect ==
    /\ prev.resp.kind = "redirect"
    /\ Arrive(prev.rev, [prev.req EXCEPT !.path = prev.resp.location.pathname])

NextRedirect ==
    \/ \E t \in TenantIds : CreateApp(t)
    \/ \E t \in TenantIds : DeleteApp(t)
    \/ \E u \in UserIds, t \in TenantIds : AddMember(u, t)
    \/ \E u \in UserIds : SignIn(u)
    \/ \E u \in UserIds : SignOut(u)
    \/ Visit
    \/ FollowRedirect
    \/ Remember
    \/ StartA
    \/ UserReturnsA
    \/ SessionReturnsA
    \/ MembersReturnA
    \/ StartB
    \/ UserReturnsB

SpecRedirect == InitBrowser /\ [][NextRedirect]_vars

\* this request asks for the target of the redirect the last one was
\* answered with, with the same credential, header and cookie
FollowsRedirect ==
    /\ prev.resp.kind = "redirect"
    /\ rev = prev.rev
    /\ req = [prev.req EXCEPT !.path = prev.resp.location.pathname]

SameStores ==
    /\ apps = prev.apps
    /\ members = prev.members
    /\ signedIn = prev.signedIn

\* the identity provider, where it answers, answers what it answered for
\* the last request
SameIdentityAnswers ==
    /\ outcome.getUser \in {"none", "throws", prev.outcome.getUser}
    /\ outcome.getSession \in {"none", "throws", prev.outcome.getSession}

\* C27: the request for the target of a redirect, with the same credential,
\* header and cookie and against unchanged identity-provider and membership
\* state, is forwarded, in both revisions; a chain of followed redirects so
\* ends after one hop and revisits no path
C27_RedirectsConverge ==
    (Decided /\ FollowsRedirect /\ SameStores /\ SameIdentityAnswers)
        => Forwarded

C27_Witness ==
    /\ Decided
    /\ FollowsRedirect
    /\ SameStores
    /\ SameIdentityAnswers
    /\ rev = "A"
    /\ prev.req.path = "/dashboard"
    /\ req.path = "/app/create"
    /\ outcome.getSession = "session"
    /\ Forwarded

(***************************************************************************)
(* The configuration cache: transparency and invalidation.                 *)
(***************************************************************************)
\* caller c's call is served from the cache in this step
ServedFromCache(c) == Calls(c) /\ callers'[c].result.fromCache

\* the config field returned by the call that loaded and stored the entry
\* of key t that is now in the cache
ReturnedByLoader(t) == hist.returned[t]

\* C28: a getAppConfig(appId, true) call served from a fresh cache entry
\* returns the same value as the call that loaded the entry from the
\* database and stored it, also for an app without an app_configs row
C28_CacheTransparent ==
    [][\A c \in CallerIds :
         ServedFromCache(c)
           => callers'[c].result.config
                = ReturnedByLoader(callers'[c].appId)]_vars

\* caller c's call stores an entry in this step, and it had read the app
\* row before an invalidation of its key that has returned since
StoresFromBeforeInvalidation(c) ==
    /\ ReturnsLoaded(c)
    /\ callers[c].useCache
    /\ configCache'[callers[c].appId].present
    /\ hist.stale[c]

\* C29: a getAppConfig call in flight when invalidateAppConfigCache(appId)
\* or clearAppConfigCache runs does not put back into the cache what it
\* read before the invalidation, so that every later call reads the store
\* after the invalidation
C29_InvalidationEffective ==
    [][\A c \in CallerIds : ~StoresFromBeforeInvalidation(c)]_vars

(***************************************************************************)
(* The logger's context and the API route wrappers.  There is one logger   *)
(* per process; a request is a call of the function apiHandler returns,    *)
(* which runs up to its next await in one step.                            *)
(***************************************************************************)
\* the x-request-id header of each request
HeaderId == [r \in ApiIds |-> IF r = "r1" THEN "h1" ELSE "h2"]

\* generateRequestId(): a new id on every call, the first call in
\* apiHandler (stage 1), the second in withErrorHandler (stage 2)
GeneratedId(r, stage) ==
    IF r = "r1" THEN (IF stage = 1 THEN "g1a" ELSE "g1b")
    ELSE (IF stage = 1 THEN "g2a" ELSE "g2b")

\* req.headers.get('x-request-id') || generateRequestId()
getRequestId(r, header, stage) ==
    IF header THEN HeaderId[r] ELSE GeneratedId(r, stage)

\* setContext: { ...this.context, ...{ requestId } }
setContext(context, requestId) == requestId

\* createLogEntry: context: { ...this.context, ...context }, where this is
\* the requestId of the logger's context and explicit the one of the
\* context argument, NoId if it has none
createLogEntry(r, this, explicit) ==
    [owner |-> r,
     requestId |-> IF explicit # NoId THEN explicit ELSE this,
     concurrent |-> \E q \in ApiIds \ {r} :
                        api[q].pc \in {"inHandler", "returning"}]

\* apiHandler sets the context, calls the function withErrorHandler
\* returns, which sets the context and calls the handler; the handler runs
\* up to its first await and may log before it
ApiHandlerCall(r, header, logs) ==
    /\ api[r].pc = "idle"
    /\ api' = [api EXCEPT ![r] = [pc |-> "inHandler", header |-> header]]
    /\ logContext' =
         setContext(setContext(logContext, getRequestId(r, header, 1)),
                    getRequestId(r, header, 2))
    /\ lastEntry' =
         IF logs THEN createLogEntry(r, logContext', NoId) ELSE lastEntry
    /\ UNCHANGED <<prev, ra, cacheVars, rr, tls, detVars, storeVars,
                   envVars, gatewayVars>>

\* the handler resumes from an await and logs, passing no requestId
HandlerLogs(r) ==
    /\ api[r].pc = "inHandler"
    /\ lastEntry' = createLogEntry(r, logContext, NoId)
    /\ UNCHANGED <<prev, ra, cacheVars, rr, tls, logContext, api, detVars,
                   storeVars, envVars, gatewayVars>>

\* the handler settles: withErrorHandler passes a thrown error to
\* handleError, which logs it with the requestId, and clears the context
WithErrorHandlerEnds(r, threw) ==
    /\ api[r].pc = "inHandler"
    /\ api' = [api EXCEPT ![r].pc = "returning"]
    /\ lastEntry' =
         IF threw
         THEN createLogEntry(r, logContext,
                             getRequestId(r, api[r].header, 2))
         ELSE lastEntry
    /\ logContext' = NoId
    /\ UNCHANGED <<prev, ra, cacheVars, rr, tls, detVars, storeVars,
                   envVars, gatewayVars>>

\* apiHandler resumes from its await and clears the context
ApiHandlerEnds(r) ==
    /\ api[r].pc = "returning"
    /\ api' = [api EXCEPT ![r].pc = "done"]
    /\ logContext' = NoId
    /\ UNCHANGED <<prev, ra, cacheVars, rr, tls, lastEntry, detVars,
                   storeVars, envVars, gatewayVars>>

\* the response was sent
ApiDiscard(r) ==
    /\ api[r].pc = "done"
    /\ api' = [api EXCEPT ![r] = NoApiCall]
    /\ UNCHANGED <<prev, ra, cacheVars, rr, tls, logContext, lastEntry,
                   detVars, storeVars, envVars, gatewayVars>>

NextLog ==
    \/ \E r \in ApiIds, header \in BOOLEAN, logs \in BOOLEAN :
           ApiHandlerCall(r, header, logs)
    \/ \E r \in ApiIds : HandlerLogs(r)
    \/ \E r \in ApiIds, threw \in BOOLEAN : WithErrorHandlerEnds(r, threw)
    \/ \E r \in ApiIds : ApiHandlerEnds(r)
    \/ \E r \in ApiIds : ApiDiscard(r)

SpecLog == Init /\ [][NextLog]_vars

\* the request ids that belong to request r
OwnRequestIds(r) == {HeaderId[r], GeneratedId(r, 1), GeneratedId(r, 2)}

\* the last entry was emitted for a request while another was in flight
EmittedDuringOverlap == lastEntry.owner # "" /\ lastEntry.concurrent

\* C30: while two requests wrapped by apiHandler/withErrorHandler are in
\* flight at the same time, every log entry emitted for one of them carries
\* that request's own requestId, never the other's and never none
C30_ContextIsolated ==
    EmittedDuringOverlap
      => lastEntry.requestId \in OwnRequestIds(lastEntry.owner)
====
